---- MODULE Spec2Model ----
(***************************************************************************)
(* AlumTrack backend: the purchase / sales-target store behind the HTTP    *)
(* handlers of main.py and the allocation engine of optimizer.py.          *)
(*                                                                         *)
(* Masses and prices are floats in the source; they are modelled as        *)
(* non-negative integers (whole kilograms, whole currency units), which    *)
(* is the well-formed input domain of the engine.  The fields purity,      *)
(* purchase_date, supplier and notes are never read by a modelled          *)
(* operation and are left out of the records.                              *)
(*                                                                         *)
(* A table is a sequence of rows in the order an unordered SELECT          *)
(* returns them.  That order is the database's choice: nothing in the      *)
(* source asks for one (no ORDER BY), so a committed row may sit at any    *)
(* position, and the order changes only when a handler writes.             *)
(***************************************************************************)
EXTENDS Integers, Sequences, FiniteSets, TLC

VARIABLES purchases, targets, nextPurchaseId, nextTargetId, result, last

vars == <<purchases, targets, nextPurchaseId, nextTargetId, result, last>>

-----------------------------------------------------------------------------
(* Bounds of the model *)

MaxQty == 2
MaxPrice == 2
MaxLots == 3
MaxLines == 2
MaxPurchaseId == 2
MaxTargetId == 1
MaxRows == 2

Alloys == {"A", "B"}
Periods == {<<2024, 12>>, <<2025, 1>>}
Extensions == {"csv", "xlsx", "xls", "txt"}

Quantities == 0..MaxQty
Prices == 1..MaxPrice

-----------------------------------------------------------------------------
(* Data contracts (models.py) *)

PurchaseCreate == [alloy_type : Alloys, quantity_kg : Quantities, price_per_kg : Prices]

SalesTargetCreate ==
    {[alloy_type |-> a, target_quantity_kg |-> q, month |-> p[2], year |-> p[1]] :
        a \in Alloys, q \in Quantities, p \in Periods}

Purchase(id, data, remaining) ==
    [id |-> id, alloy_type |-> data.alloy_type, quantity_kg |-> data.quantity_kg,
     price_per_kg |-> data.price_per_kg, remaining_quantity_kg |-> remaining]

SalesTarget(id, data) ==
    [id |-> id, alloy_type |-> data.alloy_type,
     target_quantity_kg |-> data.target_quantity_kg,
     month |-> data.month, year |-> data.year]

-----------------------------------------------------------------------------
(* Sequence helpers *)

Front(s) == SubSeq(s, 1, Len(s) - 1)

Min(a, b) == IF a <= b THEN a ELSE b

InsertAt(s, pos, x) == SubSeq(s, 1, pos - 1) \o <<x>> \o SubSeq(s, pos, Len(s))

RemoveAt(s, pos) == SubSeq(s, 1, pos - 1) \o SubSeq(s, pos + 1, Len(s))

Ids(rows) == {rows[i].id : i \in 1..Len(rows)}

IndexOf(rows, id) == CHOOSE i \in 1..Len(rows) : rows[i].id = id

\* session.add + session.commit of new or rewritten rows: every placement
\* the database may give them in the table (a rewritten row may keep its
\* place or move).
RECURSIVE Committed(_, _)
Committed(rows, new) ==
    IF new = <<>> THEN {rows}
    ELSE UNION {Committed(InsertAt(rows, pos, Head(new)), Tail(new)) :
                    pos \in 1..(Len(rows) + 1)}

-----------------------------------------------------------------------------
(* optimizer.py: calculate_optimal_mix *)

EmptyResult == [optimal_mix |-> <<>>, to_buy |-> <<>>, total_cost_for_targets |-> 0]

\* lines 8-10: the targets of the month
SelectTargetsAnyPeriod(ts, year, month) == ts
SelectTargets(ts, year, month) ==
    SelectSeq(ts, LAMBDA t : t.year = year /\ t.month = month)

\* line 14: target_by_alloy[t.alloy_type] += t.target_quantity_kg on a
\* defaultdict(float); a dict keeps its keys in insertion order.
AddNeedOverwrite(d, alloy, qty) ==
    IF \E i \in 1..Len(d) : d[i].alloy_type = alloy
    THEN [i \in 1..Len(d) |->
            IF d[i].alloy_type = alloy THEN [d[i] EXCEPT !.need_qty = qty] ELSE d[i]]
    ELSE Append(d, [alloy_type |-> alloy, need_qty |-> qty])
AddNeed(d, alloy, qty) ==
    IF \E i \in 1..Len(d) : d[i].alloy_type = alloy
    THEN [i \in 1..Len(d) |->
            IF d[i].alloy_type = alloy THEN [d[i] EXCEPT !.need_qty = @ + qty] ELSE d[i]]
    ELSE Append(d, [alloy_type |-> alloy, need_qty |-> 0 + qty])

\* lines 12-14
RECURSIVE TargetByAlloy(_)
TargetByAlloy(ts) ==
    IF ts = <<>> THEN <<>>
    ELSE AddNeed(TargetByAlloy(Front(ts)), ts[Len(ts)].alloy_type,
                 ts[Len(ts)].target_quantity_kg)

\* lines 17-19: purchases with remaining stock
SelectStock(ps) == SelectSeq(ps, LAMBDA p : p.remaining_quantity_kg > 0)

\* lines 21-23 and inventory.get(alloy, []) of line 36
Inventory(stock, alloy) == SelectSeq(stock, LAMBDA p : p.alloy_type = alloy)

\* lines 35-38: sorted(..., key=price_per_kg); Python's sort is stable
RECURSIVE InsertByPrice(_, _)
InsertByPrice(s, b) ==
    IF s = <<>> THEN <<b>>
    ELSE IF s[Len(s)].price_per_kg <= b.price_per_kg THEN Append(s, b)
    ELSE Append(InsertByPrice(Front(s), b), s[Len(s)])

Unsorted(s) == s
RECURSIVE Sorted(_)
Sorted(s) == IF s = <<>> THEN <<>> ELSE InsertByPrice(Sorted(Front(s)), s[Len(s)])

\* line 44
UseLeft(b, left) == left
UseOne(b, left) == Min(1, Min(b.remaining_quantity_kg, left))
Use(b, left) == Min(b.remaining_quantity_kg, left)

\* line 48
CostAdded(use, b) == use + b.price_per_kg
Cost(use, b) == use * b.price_per_kg

\* line 61
ShortfallOrExact(left) == left >= 0
Shortfall(left) == left > 0

\* lines 40-59: the walk over the sorted batches of one alloy
RECURSIVE Consume(_, _, _, _)
Consume(alloy, batches, left, res) ==
    IF batches = <<>> THEN [left |-> left, result |-> res]
    ELSE IF left <= 0 THEN [left |-> left, result |-> res]
    ELSE LET b == Head(batches)
             use == Use(b, left)
         IN  IF use <= 0 THEN Consume(alloy, Tail(batches), left, res)
             ELSE LET cost == Cost(use, b)
                      step == [alloy_type |-> alloy, purchase_id |-> b.id,
                               quantity_used_kg |-> use,
                               price_per_kg |-> b.price_per_kg, cost |-> cost]
                  IN  Consume(alloy, Tail(batches), left - use,
                              [res EXCEPT !.total_cost_for_targets = @ + cost,
                                          !.optimal_mix = Append(@, step)])

\* lines 32-66: the loop over target_by_alloy.items()
RECURSIVE Allocate(_, _, _)
Allocate(needs, stock, res) ==
    IF needs = <<>> THEN res
    ELSE LET alloy == Head(needs).alloy_type
             done == Consume(alloy, Sorted(Inventory(stock, alloy)),
                             Head(needs).need_qty, res)
         IN  Allocate(Tail(needs), stock,
                      IF Shortfall(done.left)
                      THEN [done.result EXCEPT !.to_buy =
                              Append(@, [alloy_type |-> alloy,
                                         missing_quantity_kg |-> done.left])]
                      ELSE done.result)

calculate_optimal_mix(ps, ts, year, month) ==
    Allocate(TargetByAlloy(SelectTargets(ts, year, month)), SelectStock(ps), EmptyResult)

-----------------------------------------------------------------------------
(* main.py: the handlers *)

Done(op, status, id, period) == [op |-> op, status |-> status, id |-> id, period |-> period]

NoPeriod == <<0, 0>>

Init ==
    /\ purchases = <<>>
    /\ targets = <<>>
    /\ nextPurchaseId = 1
    /\ nextTargetId = 1
    /\ result = EmptyResult
    /\ last = Done("startup", 200, 0, NoPeriod)

add_purchase_no_stock(data) ==
    /\ nextPurchaseId <= MaxPurchaseId
    /\ purchases' \in Committed(purchases, <<Purchase(nextPurchaseId, data, 0)>>)
    /\ nextPurchaseId' = nextPurchaseId + 1
    /\ result' = EmptyResult
    /\ last' = Done("add_purchase", 200, nextPurchaseId, NoPeriod)
    /\ UNCHANGED <<targets, nextTargetId>>
add_purchase(data) ==
    /\ nextPurchaseId <= MaxPurchaseId
    /\ purchases' \in Committed(purchases,
                                <<Purchase(nextPurchaseId, data, data.quantity_kg)>>)
    /\ nextPurchaseId' = nextPurchaseId + 1
    /\ result' = EmptyResult
    /\ last' = Done("add_purchase", 200, nextPurchaseId, NoPeriod)
    /\ UNCHANGED <<targets, nextTargetId>>

upload_purchase_file(ext, rows) ==
    IF ext \notin {"csv", "xlsx", "xls"}
    THEN /\ last' = Done("upload_purchase_file", 400, 0, NoPeriod)
         /\ result' = EmptyResult
         /\ UNCHANGED <<purchases, targets, nextPurchaseId, nextTargetId>>
    ELSE /\ nextPurchaseId + Len(rows) - 1 <= MaxPurchaseId
         /\ purchases' \in Committed(purchases,
                [i \in 1..Len(rows) |->
                    Purchase(nextPurchaseId + i - 1, rows[i], rows[i].quantity_kg)])
         /\ nextPurchaseId' = nextPurchaseId + Len(rows)
         /\ result' = EmptyResult
         /\ last' = Done("upload_purchase_file", 200, 0, NoPeriod)
         /\ UNCHANGED <<targets, nextTargetId>>

update_purchase(purchase_id, data) ==
    IF purchase_id \notin Ids(purchases)
    THEN /\ last' = Done("update_purchase", 404, purchase_id, NoPeriod)
         /\ result' = EmptyResult
         /\ UNCHANGED <<purchases, targets, nextPurchaseId, nextTargetId>>
    ELSE /\ purchases' \in Committed(RemoveAt(purchases, IndexOf(purchases, purchase_id)),
                                     <<Purchase(purchase_id, data, data.quantity_kg)>>)
         /\ result' = EmptyResult
         /\ last' = Done("update_purchase", 200, purchase_id, NoPeriod)
         /\ UNCHANGED <<targets, nextPurchaseId, nextTargetId>>

delete_purchase(purchase_id) ==
    IF purchase_id \notin Ids(purchases)
    THEN /\ last' = Done("delete_purchase", 404, purchase_id, NoPeriod)
         /\ result' = EmptyResult
         /\ UNCHANGED <<purchases, targets, nextPurchaseId, nextTargetId>>
    ELSE /\ purchases' = RemoveAt(purchases, IndexOf(purchases, purchase_id))
         /\ result' = EmptyResult
         /\ last' = Done("delete_purchase", 200, purchase_id, NoPeriod)
         /\ UNCHANGED <<targets, nextPurchaseId, nextTargetId>>

add_target(data) ==
    /\ nextTargetId <= MaxTargetId
    /\ targets' \in Committed(targets, <<SalesTarget(nextTargetId, data)>>)
    /\ nextTargetId' = nextTargetId + 1
    /\ result' = EmptyResult
    /\ last' = Done("add_target", 200, nextTargetId, NoPeriod)
    /\ UNCHANGED <<purchases, nextPurchaseId>>

update_sales_target(target_id, data) ==
    IF target_id \notin Ids(targets)
    THEN /\ last' = Done("update_sales_target", 404, target_id, NoPeriod)
         /\ result' = EmptyResult
         /\ UNCHANGED <<purchases, targets, nextPurchaseId, nextTargetId>>
    ELSE /\ targets' \in Committed(RemoveAt(targets, IndexOf(targets, target_id)),
                                   <<SalesTarget(target_id, data)>>)
         /\ result' = EmptyResult
         /\ last' = Done("update_sales_target", 200, target_id, NoPeriod)
         /\ UNCHANGED <<purchases, nextPurchaseId, nextTargetId>>

delete_sales_target(target_id) ==
    IF target_id \notin Ids(targets)
    THEN /\ last' = Done("delete_sales_target", 404, target_id, NoPeriod)
         /\ result' = EmptyResult
         /\ UNCHANGED <<purchases, targets, nextPurchaseId, nextTargetId>>
    ELSE /\ targets' = RemoveAt(targets, IndexOf(targets, target_id))
         /\ result' = EmptyResult
         /\ last' = Done("delete_sales_target", 200, target_id, NoPeriod)
         /\ UNCHANGED <<purchases, nextPurchaseId, nextTargetId>>

\* What the stock would be if planning consumed it.
RECURSIVE Drawn(_, _)
Drawn(ps, mix) ==
    IF mix = <<>> THEN ps
    ELSE Drawn([i \in 1..Len(ps) |->
                  IF ps[i].id = Head(mix).purchase_id
                  THEN [ps[i] EXCEPT !.remaining_quantity_kg =
                                        @ - Head(mix).quantity_used_kg]
                  ELSE ps[i]],
               Tail(mix))

optimize_consuming(year, month) ==
    /\ result' = calculate_optimal_mix(purchases, targets, year, month)
    /\ purchases' = Drawn(purchases, result'.optimal_mix)
    /\ last' = Done("optimize", 200, 0, <<year, month>>)
    /\ UNCHANGED <<targets, nextPurchaseId, nextTargetId>>
optimize(year, month) ==
    /\ result' = calculate_optimal_mix(purchases, targets, year, month)
    /\ last' = Done("optimize", 200, 0, <<year, month>>)
    /\ UNCHANGED <<purchases, targets, nextPurchaseId, nextTargetId>>

RowsUpTo(n) == UNION {[1..k -> PurchaseCreate] : k \in 0..n}

Next ==
    \/ \E data \in PurchaseCreate : add_purchase(data)
    \/ \E ext \in Extensions, rows \in RowsUpTo(MaxRows) : upload_purchase_file(ext, rows)
    \/ \E id \in 1..MaxPurchaseId, data \in PurchaseCreate : update_purchase(id, data)
    \/ \E id \in 1..MaxPurchaseId : delete_purchase(id)
    \/ \E data \in SalesTargetCreate : add_target(data)
    \/ \E id \in 1..MaxTargetId, data \in SalesTargetCreate : update_sales_target(id, data)
    \/ \E id \in 1..MaxTargetId : delete_sales_target(id)
    \/ \E p \in Periods : optimize(p[1], p[2])

Spec == Init /\ [][Next]_vars

-----------------------------------------------------------------------------
(* The engine on every bounded store: the tables are drawn from the stores *)
(* the handlers can leave behind (distinct ids, remaining = purchased      *)
(* quantity), and then planned for any period.  The engine copies a lot's  *)
(* id and never compares it, so the lots are numbered in row order here;   *)
(* every arrangement of grades, prices and quantities over the rows is     *)
(* drawn.                                                                  *)

Stores ==
    UNION {{[i \in 1..n |-> Purchase(i, data[i], data[i].quantity_kg)] :
                data \in [1..n -> PurchaseCreate]} :
           n \in 0..MaxLots}

TargetTables ==
    UNION {{[i \in 1..n |-> SalesTarget(i, data[i])] : data \in [1..n -> SalesTargetCreate]} :
           n \in 0..MaxLines}

InitEngine ==
    /\ purchases \in Stores
    /\ targets \in TargetTables
    /\ nextPurchaseId = MaxLots + 1
    /\ nextTargetId = MaxLines + 1
    /\ result = EmptyResult
    /\ last = Done("startup", 200, 0, NoPeriod)

NextEngine == \E p \in Periods : optimize(p[1], p[2])

SpecEngine == InitEngine /\ [][NextEngine]_vars

-----------------------------------------------------------------------------
(* What a plan is measured against: the tables as they stand when the      *)
(* response of /optimize is the latest response.                           *)

RECURSIVE Sum(_)
Sum(s) == IF s = <<>> THEN 0 ELSE s[1] + Sum(Tail(s))

Planned == last.op = "optimize"

InPeriod(t) == <<t.year, t.month>> = last.period

LinesOf(a) == {i \in 1..Len(targets) : InPeriod(targets[i]) /\ targets[i].alloy_type = a}

HasDemand(a) == LinesOf(a) # {}

Demand(a) ==
    Sum([i \in 1..Len(targets) |->
            IF i \in LinesOf(a) THEN targets[i].target_quantity_kg ELSE 0])

LotsOf(a) == {i \in 1..Len(purchases) : purchases[i].alloy_type = a}

Stock(a) ==
    Sum([i \in 1..Len(purchases) |->
            IF i \in LotsOf(a) THEN purchases[i].remaining_quantity_kg ELSE 0])

StepsOf(a) == SelectSeq(result.optimal_mix, LAMBDA s : s.alloy_type = a)

Used(steps) == Sum([k \in 1..Len(steps) |-> steps[k].quantity_used_kg])

Spent(steps) == Sum([k \in 1..Len(steps) |-> steps[k].cost])

ToBuyOf(a) == SelectSeq(result.to_buy, LAMBDA e : e.alloy_type = a)

Missing(a) == Sum([k \in 1..Len(ToBuyOf(a)) |-> ToBuyOf(a)[k].missing_quantity_kg])

StepsOn(id) == SelectSeq(result.optimal_mix, LAMBDA s : s.purchase_id = id)

\* Every way of drawing exactly d from the lots of grade a, each lot giving
\* between 0 and its remaining quantity, and what it costs.
Draws(a, d) ==
    {f \in [1..Len(purchases) -> 0..MaxQty] :
        /\ \A i \in 1..Len(purchases) :
              f[i] <= (IF i \in LotsOf(a) THEN purchases[i].remaining_quantity_kg ELSE 0)
        /\ Sum(f) = d}

DrawCost(f) == Sum([i \in 1..Len(purchases) |-> f[i] * purchases[i].price_per_kg])

\* C1: cost minimality -- for every grade with demand in the period whose
\* stock covers the summed demand, the cost of the grade's steps is the
\* minimum over all feasible draws of exactly the demanded quantity.
C1_CostMinimal ==
    Planned =>
        \A a \in Alloys :
            (HasDemand(a) /\ Stock(a) >= Demand(a)) =>
                /\ \E f \in Draws(a, Demand(a)) : DrawCost(f) = Spent(StepsOf(a))
                /\ \A f \in Draws(a, Demand(a)) : Spent(StepsOf(a)) <= DrawCost(f)

\* A plan where the sort decided the cost: a dearer lot is stored before a
\* cheaper one of the same grade, and the demand is less than the stock.
C1_Witness ==
    /\ Planned
    /\ \E a \in Alloys :
          /\ HasDemand(a) /\ Demand(a) > 0 /\ Stock(a) > Demand(a)
          /\ Len(StepsOf(a)) >= 2
          /\ \E i, j \in LotsOf(a) :
                /\ i < j
                /\ purchases[i].price_per_kg > purchases[j].price_per_kg
                /\ purchases[i].remaining_quantity_kg > 0
                /\ purchases[j].remaining_quantity_kg > 0

\* C2: completeness -- for every grade with demand in the period, the
\* quantity used by its steps plus its missing quantity (0 without a
\* shortfall entry) equals the sum of all its demand lines of the period.
C2_Complete ==
    Planned =>
        \A a \in Alloys :
            HasDemand(a) => Used(StepsOf(a)) + Missing(a) = Demand(a)

\* Two positive lines of one grade in the period, partly met from stock.
C2_Witness ==
    /\ Planned
    /\ \E a \in Alloys :
          /\ \E i, j \in LinesOf(a) :
                /\ i # j
                /\ targets[i].target_quantity_kg > 0
                /\ targets[j].target_quantity_kg > 0
          /\ StepsOf(a) # <<>>
          /\ ToBuyOf(a) # <<>>

\* C3: conservation -- every step uses a positive quantity, at most the
\* remaining quantity of the lot it references, the step's grade is that
\* lot's grade, and the steps on one lot never total more than the lot has.
C3_Conserved ==
    Planned =>
        /\ \A k \in 1..Len(result.optimal_mix) :
              LET s == result.optimal_mix[k] IN
              \E i \in 1..Len(purchases) :
                  /\ purchases[i].id = s.purchase_id
                  /\ 0 < s.quantity_used_kg
                  /\ s.quantity_used_kg <= purchases[i].remaining_quantity_kg
                  /\ s.alloy_type = purchases[i].alloy_type
        /\ \A i \in 1..Len(purchases) :
              Used(StepsOn(purchases[i].id)) <= purchases[i].remaining_quantity_kg

\* A plan with a lot drained whole and a lot drawn in part.
C3_Witness ==
    /\ Planned
    /\ \E i, j \in 1..Len(purchases) :
          /\ i # j
          /\ Used(StepsOn(purchases[i].id)) = purchases[i].remaining_quantity_kg
          /\ Used(StepsOn(purchases[i].id)) > 0
          /\ Used(StepsOn(purchases[j].id)) > 0
          /\ Used(StepsOn(purchases[j].id)) < purchases[j].remaining_quantity_kg

\* C4: planning is read-only -- a call of /optimize leaves every stored
\* purchase and every stored sales target as it was, and a call that
\* directly follows a call for the same period returns the same result.
C4_ReadOnly ==
    [][/\ last'.op = "optimize" => (purchases' = purchases /\ targets' = targets)
       /\ (Planned /\ last'.op = "optimize" /\ last'.period = last.period)
             => result' = result]_vars

\* A plan that drew on stock has been returned.
C4_Witness ==
    /\ Planned
    /\ result.optimal_mix # <<>>
    /\ \E i \in 1..Len(purchases) :
          /\ purchases[i].remaining_quantity_kg > 0
          /\ Used(StepsOn(purchases[i].id)) > 0

\* C5: ordering determinism -- within each grade the steps are in ascending
\* unit cost and, among lots of equal unit cost, in ascending lot identity.
C5_OrderedByCostThenId ==
    Planned =>
        \A a \in Alloys :
            \A k, l \in 1..Len(StepsOf(a)) :
                k < l =>
                    \/ StepsOf(a)[k].price_per_kg < StepsOf(a)[l].price_per_kg
                    \/ /\ StepsOf(a)[k].price_per_kg = StepsOf(a)[l].price_per_kg
                       /\ StepsOf(a)[k].purchase_id < StepsOf(a)[l].purchase_id

\* C6: shortfall reporting -- to_buy holds exactly one entry for each grade
\* with demand in the period exceeding the grade's stock, missing the
\* positive difference, and no entry for any other grade; a grade with
\* positive demand and no lots has one entry of the full demand and no steps.
C6_Shortfalls ==
    Planned =>
        /\ \A a \in Alloys :
              IF HasDemand(a) /\ Demand(a) > Stock(a)
              THEN /\ Len(ToBuyOf(a)) = 1
                   /\ ToBuyOf(a)[1].missing_quantity_kg = Demand(a) - Stock(a)
                   /\ ToBuyOf(a)[1].missing_quantity_kg > 0
              ELSE ToBuyOf(a) = <<>>
        /\ \A k \in 1..Len(result.to_buy) : result.to_buy[k].alloy_type \in Alloys
        /\ \A a \in Alloys :
              (HasDemand(a) /\ Demand(a) > 0 /\ LotsOf(a) = {}) =>
                  /\ Len(ToBuyOf(a)) = 1
                  /\ ToBuyOf(a)[1].missing_quantity_kg = Demand(a)
                  /\ StepsOf(a) = <<>>

\* One grade short after draining its lots, another short with no lot at
\* all, in the same plan.
C6_Witness ==
    /\ Planned
    /\ \E a, b \in Alloys :
          /\ a # b
          /\ StepsOf(a) # <<>> /\ ToBuyOf(a) # <<>>
          /\ LotsOf(b) = {} /\ ToBuyOf(b) # <<>>

\* C7: no demand, no output -- a grade with lots but no demand line in the
\* period, and a grade whose summed demand is zero, have neither steps nor
\* shortfall entries; with no demand line at all in the period the result
\* is empty with total cost 0, whatever lots exist.
C7_NoDemandNoOutput ==
    Planned =>
        /\ \A a \in Alloys :
              (~HasDemand(a) \/ Demand(a) = 0) =>
                  (StepsOf(a) = <<>> /\ ToBuyOf(a) = <<>>)
        /\ (\A a \in Alloys : ~HasDemand(a)) => result = EmptyResult

\* Stock of a grade whose only positive line is for another period, next to
\* a grade that is planned.
C7_Witness ==
    /\ Planned
    /\ \E a, b \in Alloys :
          /\ ~HasDemand(a) /\ Stock(a) > 0
          /\ \E i \in 1..Len(targets) :
                /\ targets[i].alloy_type = a
                /\ targets[i].target_quantity_kg > 0
                /\ ~InPeriod(targets[i])
          /\ StepsOf(a) = <<>>
          /\ StepsOf(b) # <<>>

\* C8: cost accounting -- every step's cost is its quantity used times the
\* price of the lot it references, the step's price being that lot's price,
\* and the total cost is the sum of the costs of all steps.
C8_CostAccounting ==
    Planned =>
        /\ \A k \in 1..Len(result.optimal_mix) :
              LET s == result.optimal_mix[k] IN
              \E i \in 1..Len(purchases) :
                  /\ purchases[i].id = s.purchase_id
                  /\ s.price_per_kg = purchases[i].price_per_kg
                  /\ s.cost = s.quantity_used_kg * purchases[i].price_per_kg
        /\ result.total_cost_for_targets = Spent(result.optimal_mix)

\* Steps of two grades, one of them at a price and quantity above 1.
C8_Witness ==
    /\ Planned
    /\ \E k, l \in 1..Len(result.optimal_mix) :
          /\ result.optimal_mix[k].alloy_type # result.optimal_mix[l].alloy_type
          /\ result.optimal_mix[k].quantity_used_kg > 1
          /\ result.optimal_mix[k].price_per_kg > 1

\* C9: greedy shape -- each lot is referenced by at most one step; every
\* step of a grade but the last takes its lot whole; no step follows once
\* the grade's demand is met; every lot of the grade strictly cheaper than
\* a lot in a step is taken whole.
C9_GreedyShape ==
    Planned =>
        /\ \A i \in 1..Len(purchases) : Len(StepsOn(purchases[i].id)) <= 1
        /\ \A a \in Alloys :
              LET steps == StepsOf(a) IN
              /\ \A k \in 1..Len(steps) :
                    /\ k < Len(steps) =>
                          \E i \in LotsOf(a) :
                              /\ purchases[i].id = steps[k].purchase_id
                              /\ steps[k].quantity_used_kg =
                                    purchases[i].remaining_quantity_kg
                    /\ Used(SubSeq(steps, 1, k - 1)) < Demand(a)
              /\ \A k \in 1..Len(steps), i \in LotsOf(a) :
                    purchases[i].price_per_kg < steps[k].price_per_kg =>
                        Used(StepsOn(purchases[i].id)) =
                            purchases[i].remaining_quantity_kg

\* Three lots of one grade: the cheapest taken whole, the next in part,
\* the dearest untouched.
C9_Witness ==
    /\ Planned
    /\ \E a \in Alloys :
          /\ Len(StepsOf(a)) = 2
          /\ \E i, j, n \in LotsOf(a) :
                /\ Used(StepsOn(purchases[i].id)) = purchases[i].remaining_quantity_kg
                /\ Used(StepsOn(purchases[i].id)) > 0
                /\ Used(StepsOn(purchases[j].id)) > 0
                /\ Used(StepsOn(purchases[j].id)) < purchases[j].remaining_quantity_kg
                /\ purchases[n].remaining_quantity_kg > 0
                /\ StepsOn(purchases[n].id) = <<>>

\* C10: every stored purchase has remaining_quantity_kg = quantity_kg after
\* any sequence of requests, and an update or delete of a purchase id that
\* is not stored answers 404 and leaves both tables as they were.
C10_RemainingIsQuantity ==
    /\ [](\A i \in 1..Len(purchases) :
              purchases[i].remaining_quantity_kg = purchases[i].quantity_kg)
    /\ [][(last'.op \in {"update_purchase", "delete_purchase"}
              /\ last'.id \notin Ids(purchases))
            => (last'.status = 404 /\ purchases' = purchases /\ targets' = targets)]_vars

\* An update has just rewritten a stored purchase to a positive quantity
\* while another purchase is stored.
C10_Witness ==
    /\ last.op = "update_purchase"
    /\ last.status = 200
    /\ Len(purchases) = 2
    /\ \E i \in 1..Len(purchases) :
          /\ purchases[i].id = last.id
          /\ purchases[i].quantity_kg = MaxQty

====
